---- MODULE Spec2Model ----
(***************************************************************************)
(* Model of the video preview pipeline: the DrawDevice presentation        *)
(* device (device.cpp), its geometry helpers, the VideoBufferLock and the  *)
(* Camera object that drives it from the source-reader callback.           *)
(*                                                                         *)
(* Spec     drives one DrawDevice through arbitrary sequences of its       *)
(*          public operations with arbitrary backend (Direct3D / Media     *)
(*          Foundation) outcomes.                                          *)
(* SpecCam  runs the Camera methods on an application thread and the       *)
(*          source-reader callback thread, interleaved at the points       *)
(*          where the code takes or releases Camera::mMutex.               *)
(***************************************************************************)
EXTENDS Integers, Sequences, FiniteSets, TLC

VARIABLES
    dd,       \* the DrawDevice object (its data members)
    be,       \* the presentation backend: size and surface lock of the swap chain
    client,   \* client-area size of each window (what GetClientRect reports)
    fault,    \* "none", or the undefined behaviour the process ran into
    last,     \* the operation that ran last: arguments, backend outcomes, calls made, result
    cam,      \* the Camera object (mReader, mSymbolicLink, mMutex, mWidth, mHeight)
    pc,       \* per thread: position inside the Camera method it runs
    loc,      \* per thread: locals of the running Camera method
    pending,  \* read requests the source reader has accepted and not yet answered
    fn,       \* the helper function or registry query called last: arguments and result
    vbl,      \* a VideoBufferLock object, its frame buffer and the calls made on it
    conv      \* the converter called last: its source frame, arguments and output pixels

vars == <<dd, be, client, fault, last, cam, pc, loc, pending, fn, vbl, conv>>

(***************************************************************************)
(* Values                                                                  *)
(***************************************************************************)
NULL == 0

\* The window the video is shown in.
VideoWindow == 1
Windows == {VideoWindow}

\* Another window of the application.
AppWindow == 2

\* Client-area sizes a window can take.
ClientSizes == {<<1280, 720>>, <<800, 600>>}

INT_MAX == 2147483647

D3DFMT_UNKNOWN == "UNKNOWN"

\* A subtype the table of converters does not hold.
Unsupported == "MJPG"

Abs(x) == IF x < 0 THEN -x ELSE x

\* C integer division truncates towards zero.
CDiv(a, b) == IF (a < 0) = (b < 0) THEN Abs(a) \div Abs(b) ELSE -(Abs(a) \div Abs(b))

(***************************************************************************)
(* Geometry                                                                *)
(***************************************************************************)
\* MulDiv that cuts the quotient off instead of rounding it.
MulDivTruncating(a, b, c) ==
    IF c = 0 THEN -1
    ELSE LET neg == ((a < 0) # (b < 0)) # (c < 0)
             q   == (Abs(a) * Abs(b)) \div Abs(c)
         IN  IF neg THEN -q ELSE q

\* Win32 MulDiv: a*b/c rounded to nearest, halves away from zero; -1 when
\* c is 0 or the result does not fit an int.
MulDiv(a, b, c) ==
    IF c = 0 THEN -1
    ELSE LET neg == ((a < 0) # (b < 0)) # (c < 0)
             q   == (Abs(a) * Abs(b) + (Abs(c) \div 2)) \div Abs(c)
         IN  IF q > INT_MAX THEN -1 ELSE IF neg THEN -q ELSE q

Rect(l, t, r, b) == [left |-> l, top |-> t, right |-> r, bottom |-> b]

Width(r)  == r.right - r.left
Height(r) == r.bottom - r.top

\* LetterBoxRect that always takes the full width of the destination.
LetterBoxRectRowsOnly(rcSrc, rcDst) ==
    LET h == MulDiv(Width(rcDst), Height(rcSrc), Width(rcSrc))
        t == rcDst.top + CDiv(Height(rcDst) - h, 2)
    IN  [left |-> rcDst.left, top |-> t, right |-> rcDst.right, bottom |-> t + h]

LetterBoxRect(rcSrc, rcDst) ==
    LET iSrcWidth  == Width(rcSrc)
        iSrcHeight == Height(rcSrc)
        iDstWidth  == Width(rcDst)
        iDstHeight == Height(rcDst)
        pillar     == MulDiv(iSrcWidth, iDstHeight, iSrcHeight) <= iDstWidth
        iDstLBWidth  == IF pillar THEN MulDiv(iDstHeight, iSrcWidth, iSrcHeight)
                                  ELSE iDstWidth
        iDstLBHeight == IF pillar THEN iDstHeight
                                  ELSE MulDiv(iDstWidth, iSrcHeight, iSrcWidth)
        l == rcDst.left + CDiv(iDstWidth - iDstLBWidth, 2)
        t == rcDst.top + CDiv(iDstHeight - iDstLBHeight, 2)
    IN  Rect(l, t, l + iDstLBWidth, t + iDstLBHeight)

\* CorrectAspectRatio with the two stretches exchanged.
CorrectAspectRatioExchanged(src, srcPAR) ==
    LET rc == [left |-> 0, top |-> 0, right |-> src.right - src.left, bottom |-> src.bottom - src.top]
    IN  IF srcPAR[1] > srcPAR[2]
        THEN [rc EXCEPT !.bottom = MulDiv(rc.bottom, srcPAR[1], srcPAR[2])]
        ELSE IF srcPAR[1] < srcPAR[2]
             THEN [rc EXCEPT !.right = MulDiv(rc.right, srcPAR[2], srcPAR[1])]
             ELSE rc

\* CorrectAspectRatio that stretches the rectangle where it lies.
CorrectAspectRatioInPlace(src, srcPAR) ==
    IF srcPAR[1] > srcPAR[2]
    THEN [src EXCEPT !.right = src.left + MulDiv(src.right - src.left, srcPAR[1], srcPAR[2])]
    ELSE IF srcPAR[1] < srcPAR[2]
         THEN [src EXCEPT !.bottom = src.top + MulDiv(src.bottom - src.top, srcPAR[2], srcPAR[1])]
         ELSE src

CorrectAspectRatio(src, srcPAR) ==
    LET rc == Rect(0, 0, src.right - src.left, src.bottom - src.top)
    IN  IF srcPAR[1] # 1 \/ srcPAR[2] # 1
        THEN IF srcPAR[1] > srcPAR[2]
             THEN [rc EXCEPT !.right = MulDiv(rc.right, srcPAR[1], srcPAR[2])]
             ELSE IF srcPAR[1] < srcPAR[2]
                  THEN [rc EXCEPT !.bottom = MulDiv(rc.bottom, srcPAR[2], srcPAR[1])]
                  ELSE rc
        ELSE rc

(***************************************************************************)
(* DrawDevice                                                              *)
(***************************************************************************)
NoConverter == "null"

\* The static table of output formats and converters.
formatConversions ==
    <<[subtype |-> "RGB32", converter |-> "FormatConvertorRGB32"],
      [subtype |-> "RGB24", converter |-> "FormatConvertorRGB24"],
      [subtype |-> "YUY2",  converter |-> "FormatConvertorYUY2"],
      [subtype |-> "NV12",  converter |-> "FormatConvertorNV12"]>>

ZeroParams ==
    [BackBufferFormat |-> "0", SwapEffect |-> "0", PresentationInterval |-> "0",
     Windowed |-> FALSE, hDeviceWindow |-> NULL]

\* The data members of a DrawDevice after its constructor ran.
NewDrawDevice ==
    [mWindow |-> NULL, mD3D |-> NULL, mDevice |-> NULL, mSwapChain |-> NULL,
     mD3Params |-> ZeroParams, mFormat |-> D3DFMT_UNKNOWN,
     mWidth |-> 0, mHeight |-> 0, mDefaultStride |-> 0, mAspect |-> <<1, 1>>,
     mInterlaceMode |-> "Unknown", mDestRect |-> Rect(0, 0, 0, 0),
     mRGB32Converter |-> NoConverter]

\* A handle is NULL or names the live object of its kind; every creation
\* and release of an object is a backend call the operation's log records.
Object == 1

\* The backend before anything was created: the back-buffer size of the
\* swap chain it created last, and whether that chain's surface is locked
\* (a LockRect with no UnlockRect after it).
NewBackend == [chainW |-> 0, chainH |-> 0, locked |-> FALSE]

\* Backend outcomes of one operation.
\*   create  the call of createDevice that fails, or "ok"
\*   chain   CreateAdditionalSwapChain succeeds
\*   reset   IDirect3DDevice9::Reset succeeds
\*   tcl     what IDirect3DDevice9::TestCooperativeLevel returns
\*   frame   the first call of DrawFrame's drawing part that fails, or "ok"
\*   convert MFCopyImage succeeds (the RGB32 converter's result)
CreateCalls == {"Direct3DCreate9", "GetAdapterDisplayMode", "CheckDeviceType", "CreateDevice"}
CoopLevels  == {"D3D_OK", "D3DERR_DEVICELOST", "D3DERR_DEVICENOTRESET", "D3DERR_DRIVERINTERNALERROR"}
FrameCalls  == {"SwapChain.GetBackBuffer", "LockRect", "LockBuffer", "UnlockRect",
                "Device.GetBackBuffer", "ColorFill", "StretchRect", "Present"}

AllOk == [create |-> "ok", chain |-> TRUE, reset |-> TRUE, tcl |-> "D3D_OK",
          frame |-> "ok", convert |-> TRUE]

\* The state an operation threads through its steps: the device, the
\* backend, the backend calls made so far and the fault hit, if any.
Call(s, name) == [s EXCEPT !.log = Append(@, name)]

Ret(s, r) == [s |-> s, ret |-> r]

SafeRelease(s, field, name) ==
    IF s.d[field] # NULL
    THEN [s EXCEPT !.log = Append(@, name), !.d[field] = NULL,
                   !.be.locked = IF field = "mSwapChain" THEN FALSE ELSE @]
    ELSE s

\* DestroyDevice with the device released before the swap chain.
DestroyDeviceDeviceFirst(s) ==
    SafeRelease(SafeRelease(SafeRelease(s, "mDevice", "Device.Release"),
                            "mSwapChain", "SwapChain.Release"),
                "mD3D", "D3D.Release")

\* DestroyDevice that releases the device and the Direct3D object and
\* keeps the swap chain.
DestroyDeviceKeepsChain(s) ==
    SafeRelease(SafeRelease(s, "mDevice", "Device.Release"), "mD3D", "D3D.Release")

DestroyDevice(s) ==
    SafeRelease(SafeRelease(SafeRelease(s, "mSwapChain", "SwapChain.Release"),
                            "mDevice", "Device.Release"),
                "mD3D", "D3D.Release")

PresentParams(hwnd) ==
    [BackBufferFormat |-> "D3DFMT_X8R8G8B8", SwapEffect |-> "D3DSWAPEFFECT_COPY",
     PresentationInterval |-> "D3DPRESENT_INTERVAL_IMMEDIATE",
     Windowed |-> TRUE, hDeviceWindow |-> hwnd]

\* createDevice with the window stored before the device is created.
createNewDeviceWindowFirst(s, hwnd, o) ==
    LET s0 == [s EXCEPT !.d.mWindow = hwnd]
        s1 == IF s0.d.mD3D # NULL THEN s0
              ELSE [s0 EXCEPT !.log = Append(@, "Direct3DCreate9"),
                             !.d.mD3D = IF o.create = "Direct3DCreate9" THEN NULL ELSE Object]
        s4 == Call(Call(Call(s1, "GetAdapterDisplayMode"), "CheckDeviceType"), "CreateDevice")
    IN  IF s1.d.mD3D = NULL \/ o.create # "ok" \/ hwnd = NULL THEN Ret(s1, FALSE)
        ELSE Ret([s4 EXCEPT !.d.mDevice = Object,
                            !.d.mD3Params = PresentParams(hwnd)], TRUE)

\* createDevice past its first test: the backend context is created unless
\* one is kept from an earlier call, then the display mode is read, the
\* device type checked and the device created. IDirect3D9::CreateDevice
\* needs a window: with a null window it fails.
createNewDevice(s, hwnd, o) ==
    LET s1 == IF s.d.mD3D # NULL THEN s
              ELSE [s EXCEPT !.log = Append(@, "Direct3DCreate9"),
                            !.d.mD3D = IF o.create = "Direct3DCreate9" THEN NULL ELSE Object]
        s2 == Call(s1, "GetAdapterDisplayMode")
        s3 == Call(s2, "CheckDeviceType")
        s4 == Call(s3, "CreateDevice")
    IN  IF s1.d.mD3D = NULL THEN Ret(s1, FALSE)
        ELSE IF o.create = "GetAdapterDisplayMode" THEN Ret(s2, FALSE)
        ELSE IF o.create = "CheckDeviceType" THEN Ret(s3, FALSE)
        ELSE IF o.create = "CreateDevice" \/ hwnd = NULL THEN Ret(s4, FALSE)
        ELSE Ret([s4 EXCEPT !.d.mDevice = Object,
                            !.d.mWindow = hwnd,
                            !.d.mD3Params = PresentParams(hwnd)], TRUE)

\* createDevice without its first test.
createDeviceAlways(s, hwnd, o) == createNewDevice(s, hwnd, o)

createDevice(s, hwnd, o) ==
    IF s.d.mDevice # NULL THEN Ret(s, TRUE) ELSE createNewDevice(s, hwnd, o)

\* isFormatSupported that looks at the first three entries only.
isFormatSupportedFirstThree(subtype) ==
    \E i \in 1..3 : formatConversions[i].subtype = subtype

isFormatSupported(subtype) ==
    \E i \in DOMAIN formatConversions : formatConversions[i].subtype = subtype

getSupportedFormats ==
    [i \in DOMAIN formatConversions |-> formatConversions[i].subtype]

findConversionFunction(subtype) ==
    IF \E i \in DOMAIN formatConversions : formatConversions[i].subtype = subtype
    THEN formatConversions[CHOOSE i \in DOMAIN formatConversions :
                            formatConversions[i].subtype = subtype].converter
    ELSE NoConverter

\* GetClientRect of a null window fails and leaves rcClient unset.
UpdateDestinationRect(s) ==
    IF s.d.mWindow \notin Windows
    THEN [s EXCEPT !.fault = "uninitialised read"]
    ELSE LET sz       == client[s.d.mWindow]
             rcClient == Rect(0, 0, sz[1], sz[2])
             rcSrc    == CorrectAspectRatio(Rect(0, 0, s.d.mWidth, s.d.mHeight), s.d.mAspect)
         IN  [s EXCEPT !.d.mDestRect = LetterBoxRect(rcSrc, rcClient)]

\* mDevice->CreateAdditionalSwapChain through a null mDevice is a null
\* dereference.
createSwapChains(s, o) ==
    LET s1 == SafeRelease(s, "mSwapChain", "SwapChain.Release")
        s2 == Call(s1, "CreateAdditionalSwapChain")
    IN  IF s1.d.mDevice = NULL THEN Ret([s1 EXCEPT !.fault = "null dereference"], FALSE)
        ELSE IF o.chain
             THEN Ret([s2 EXCEPT !.d.mSwapChain = Object,
                                 !.be.chainW = s.d.mWidth,
                                 !.be.chainH = s.d.mHeight], TRUE)
             ELSE Ret(s2, FALSE)

\* A media type as setVideoType reads it: MF_MT_SUBTYPE ("NONE": the
\* attribute cannot be read), MF_MT_FRAME_SIZE (NoSize: cannot be read), the
\* default stride ("fail": neither stored nor computable; "bottomup": a
\* negative stride) and MF_MT_PIXEL_ASPECT_RATIO (NoPAR: not set).
NoSize == <<0, 0>>
NoPAR  == <<0, 0>>

BytesPerPixel(subtype) ==
    CASE subtype = "RGB32" -> 4
      [] subtype = "RGB24" -> 3
      [] subtype = "YUY2"  -> 2
      [] OTHER             -> 1

MediaType(st, sz, sd, par) == [subtype |-> st, size |-> sz, stride |-> sd, par |-> par]

\* RGB frames are stored bottom-up, the others top-down.
StrideKind(st) == IF st \in {"RGB32", "RGB24"} THEN "bottomup" ELSE "topdown"

\* The native types the camera offers: 640x480 RGB32 with no pixel aspect
\* ratio set, and 720x486 NV12 with 10:9 pixels.
NativeTypes ==
    {MediaType("RGB32", <<640, 480>>, StrideKind("RGB32"), NoPAR),
     MediaType("NV12", <<720, 486>>, StrideKind("NV12"), <<10, 9>>)}

\* The media types setVideoType is called with: the native types, and the
\* types on which one of its reads fails. Attributes setVideoType never
\* gets to read are left at one value.
MediaTypes ==
    NativeTypes
    \cup {MediaType("NONE", NoSize, "fail", NoPAR), MediaType(Unsupported, NoSize, "fail", NoPAR)}
    \cup {MediaType(t.subtype, NoSize, "fail", NoPAR) : t \in NativeTypes}
    \cup {MediaType(t.subtype, t.size, "fail", NoPAR) : t \in NativeTypes}

GetDefaultStride(t) ==
    IF t.stride = "bottomup" THEN -(BytesPerPixel(t.subtype) * t.size[1])
                             ELSE BytesPerPixel(t.subtype) * t.size[1]

setVideoType(s, t, o) ==
    LET s1 == [s EXCEPT !.d.mRGB32Converter = findConversionFunction(t.subtype)]
        s2 == [s1 EXCEPT !.d.mFormat = t.subtype]
        s3 == [s2 EXCEPT !.d.mWidth = t.size[1], !.d.mHeight = t.size[2],
                         !.d.mInterlaceMode = "Progressive"]
        s4 == [s3 EXCEPT !.d.mDefaultStride = GetDefaultStride(t),
                         !.d.mAspect = IF t.par = NoPAR THEN <<1, 1>> ELSE t.par]
        r5 == createSwapChains(s4, o)
    IN  IF t.subtype = "NONE" THEN Ret(s, FALSE)
        ELSE IF s1.d.mRGB32Converter = NoConverter THEN Ret(s1, FALSE)
        ELSE IF t.size = NoSize THEN Ret(s2, FALSE)
        ELSE IF t.stride = "fail" THEN Ret(s3, FALSE)
        ELSE IF ~r5.ret THEN r5
        ELSE Ret(UpdateDestinationRect(r5.s), TRUE)

\* A return of resetDevice, noted among the calls of the operation.
ResetReturns(r) ==
    Ret(Call(r.s, IF r.ret THEN "resetDevice: true" ELSE "resetDevice: false"), r.ret)

\* resetDevice that tries Reset a second time when the first one fails.
resetDeviceRetrying(s, o) ==
    LET s1 == IF s.d.mDevice # NULL
              THEN IF o.reset THEN Call(s, "Reset")
                   ELSE DestroyDevice(Call(Call(s, "Reset"), "Reset"))
              ELSE s
        r2 == IF s1.d.mDevice = NULL THEN createDevice(s1, s1.d.mWindow, o)
                                     ELSE Ret(s1, TRUE)
        r3 == createSwapChains(r2.s, o)
    IN  IF ~r2.ret THEN ResetReturns(r2)
        ELSE IF r2.s.d.mSwapChain = NULL /\ r2.s.d.mFormat # D3DFMT_UNKNOWN
             THEN IF ~r3.ret THEN ResetReturns(r3)
                  ELSE ResetReturns(Ret(UpdateDestinationRect(r3.s), TRUE))
             ELSE ResetReturns(r2)

resetDevice(s, o) ==
    LET s1 == IF s.d.mDevice # NULL
              THEN IF o.reset THEN Call(s, "Reset") ELSE DestroyDevice(Call(s, "Reset"))
              ELSE s
        r2 == IF s1.d.mDevice = NULL THEN createDevice(s1, s1.d.mWindow, o)
                                     ELSE Ret(s1, TRUE)
        r3 == createSwapChains(r2.s, o)
    IN  IF ~r2.ret THEN ResetReturns(r2)
        ELSE IF r2.s.d.mSwapChain = NULL /\ r2.s.d.mFormat # D3DFMT_UNKNOWN
             THEN IF ~r3.ret THEN ResetReturns(r3)
                  ELSE ResetReturns(Ret(UpdateDestinationRect(r3.s), TRUE))
             ELSE ResetReturns(r2)

\* TestCooperativeLevel without the reset: any level but D3D_OK fails.
TestCooperativeLevelNoReset(s, o) ==
    IF s.d.mDevice = NULL THEN Ret(s, FALSE)
    ELSE Ret(Call(s, "TestCooperativeLevel"), o.tcl = "D3D_OK")

TestCooperativeLevel(s, o) ==
    IF s.d.mDevice = NULL THEN Ret(s, FALSE)
    ELSE IF o.tcl = "D3D_OK" THEN Ret(Call(s, "TestCooperativeLevel"), TRUE)
    ELSE IF o.tcl \in {"D3DERR_DEVICELOST", "D3DERR_DEVICENOTRESET"}
         THEN resetDevice(Call(s, "TestCooperativeLevel"), o)
         ELSE Ret(Call(s, "TestCooperativeLevel"), FALSE)

(***************************************************************************)
(* VideoBufferLock                                                         *)
(***************************************************************************)
\* A uint32_t is written as its 32 bits, named by the long that has the same
\* bits (two's complement): long -> uint32_t -> long gives the long back.
ToUint32(x) == [bits |-> x]

ToLong(u) == u.bits

\* u < 0 for a uint32_t u: an unsigned value is never below zero.
U32Below0(u) == FALSE

\* A pointer is an offset from the first byte of the locked memory.
NoPtr == -1

\* A frame buffer: whether it exposes IMF2DBuffer, and the scan line 0
\* offset and pitch Lock2D reports.
Buffers == {[is2D |-> FALSE, scan0 |-> 0, pitch |-> 0],
            [is2D |-> TRUE,  scan0 |-> 0, pitch |-> 4096]}

VideoBufferLock(buf) == [m2DBuffer |-> buf.is2D, mLocked |-> FALSE, mActualStride |-> 0]

\* LockBuffer(uint32_t stride, uint32_t height); ok: the buffer's Lock2D or
\* Lock succeeds. Gives the lock object, the pointer returned and the call
\* made on the buffer.
LockBuffer(l, stride, height, buf, ok) ==
    LET l0 == [l EXCEPT !.mLocked = FALSE, !.mActualStride = 0]
    IN  IF l0.m2DBuffer
        THEN IF ~ok THEN [lock |-> l0, ptr |-> NoPtr, call |-> "Lock2D"]
             ELSE [lock |-> [l0 EXCEPT !.mLocked = TRUE, !.mActualStride = buf.pitch],
                   ptr |-> buf.scan0, call |-> "Lock2D"]
        ELSE IF ~ok THEN [lock |-> l0, ptr |-> NoPtr, call |-> "Lock"]
             ELSE [lock |-> [l0 EXCEPT !.mLocked = TRUE, !.mActualStride = ToLong(stride)],
                   ptr  |-> IF U32Below0(stride) THEN Abs(ToLong(stride)) * (height - 1) ELSE 0,
                   call |-> "Lock"]

getStride(l) == l.mActualStride

\* unlock(): the lock object afterwards and the calls made on the buffer.
unlock(l) ==
    IF ~l.mLocked THEN [lock |-> l, calls |-> <<>>]
    ELSE [lock  |-> [l EXCEPT !.mLocked = FALSE],
          calls |-> IF l.m2DBuffer THEN <<"Unlock2D">> ELSE <<"Unlock">>]

(***************************************************************************)
(* DrawDevice::DrawFrame                                                   *)
(***************************************************************************)
\* What a converter's convert returns: only the RGB32 one can fail.
convert(converter, o) == IF converter = "FormatConvertorRGB32" THEN o.convert ELSE TRUE

\* The destructors that run when DrawFrame returns, innermost scope first:
\* backBufferGuard, the VideoBufferLock, surfGuard.
LeaveSurf(s) == Call(s, "Surface.Release")

LeaveLock(s, l) == LeaveSurf([s EXCEPT !.log = @ \o unlock(l).calls])

\* The return of a frame that got its back buffer, with the source buffer
\* left locked.
LeaveBackBufferLocked(s, l) == LeaveSurf(Call(s, "BackBuffer.Release"))

LeaveBackBuffer(s, l) == LeaveLock(Call(s, "BackBuffer.Release"), l)

\* The two tests in the other order.
DrawFrameEntryDeviceFirst(d) ==
    IF d.mDevice = NULL \/ d.mSwapChain = NULL THEN "skip"
    ELSE IF d.mRGB32Converter = NoConverter THEN "fail"
    ELSE "draw"

\* The two tests DrawFrame starts with: "fail" without a converter, "skip"
\* without a device or a swap chain, "draw" otherwise.
DrawFrameEntry(d) ==
    IF d.mRGB32Converter = NoConverter THEN "fail"
    ELSE IF d.mDevice = NULL \/ d.mSwapChain = NULL THEN "skip"
    ELSE "draw"

DrawFrame(s, buf, o) ==
    LET r0 == TestCooperativeLevel(s, o)
        a  == Call(r0.s, "SwapChain.GetBackBuffer")
        b  == [Call(a, "LockRect") EXCEPT !.be.locked = TRUE]
        lk == LockBuffer(VideoBufferLock(buf), ToUint32(b.d.mDefaultStride),
                         b.d.mHeight, buf, o.frame # "LockBuffer")
        c  == Call(b, lk.call)
        d  == Call(c, IF convert(c.d.mRGB32Converter, o) THEN "convert" ELSE "convert failed")
        e  == [Call(d, "UnlockRect") EXCEPT !.be.locked = (o.frame = "UnlockRect")]
        f  == Call(e, "Device.GetBackBuffer")
        g  == Call(f, "ColorFill")
        h  == Call(g, "StretchRect")
        i  == Call(h, "Present")
    IN  IF DrawFrameEntry(s.d) = "fail" THEN Ret(s, FALSE)
        ELSE IF DrawFrameEntry(s.d) = "skip" THEN Ret(s, TRUE)
        ELSE IF ~r0.ret THEN r0
        ELSE IF r0.s.d.mSwapChain = NULL
             THEN Ret([r0.s EXCEPT !.fault = "null dereference"], FALSE)
        ELSE IF o.frame = "SwapChain.GetBackBuffer" THEN Ret(a, FALSE)
        ELSE IF o.frame = "LockRect" THEN Ret(LeaveSurf(Call(a, "LockRect")), FALSE)
        ELSE IF lk.ptr = NoPtr THEN Ret(LeaveLock(c, lk.lock), FALSE)
        ELSE IF o.frame = "UnlockRect" THEN Ret(LeaveLock(e, lk.lock), FALSE)
        ELSE IF o.frame = "Device.GetBackBuffer" THEN Ret(LeaveLock(f, lk.lock), FALSE)
        ELSE IF o.frame = "ColorFill" THEN Ret(LeaveBackBuffer(g, lk.lock), FALSE)
        ELSE IF o.frame = "StretchRect" THEN Ret(LeaveBackBuffer(h, lk.lock), FALSE)
        ELSE Ret(LeaveBackBuffer(i, lk.lock), o.frame # "Present")

(***************************************************************************)
(* Backend outcomes an operation can meet. Outcomes of calls the operation *)
(* never gets to make are left at their AllOk value.                       *)
(***************************************************************************)
CreateOutcomes ==
    {[AllOk EXCEPT !.create = c] : c \in {"ok"} \cup CreateCalls}

ChainOutcomes ==
    {[AllOk EXCEPT !.chain = c] : c \in BOOLEAN}

\* resetDevice: Reset succeeds, or fails and createDevice runs.
ResetOutcomes ==
    {[AllOk EXCEPT !.reset = r, !.chain = c] : r \in BOOLEAN, c \in BOOLEAN}
    \cup {[AllOk EXCEPT !.reset = FALSE, !.create = c] : c \in CreateCalls}

\* The drawing part of DrawFrame: the first call that fails, or a
\* conversion that fails in a frame that is drawn to the end or to Present.
FrameOutcomes(base) ==
    {[base EXCEPT !.frame = f] : f \in {"ok"} \cup FrameCalls}
    \cup {[base EXCEPT !.frame = f, !.convert = FALSE] : f \in {"ok", "Present"}}

\* A device that needs a reset meets every outcome of the reset and of the
\* drawing that follows it; a lost device has its reset succeed or fail and
\* the drawing succeed.
DrawOutcomes ==
    FrameOutcomes(AllOk)
    \cup {[AllOk EXCEPT !.tcl = "D3DERR_DRIVERINTERNALERROR"]}
    \cup UNION {FrameOutcomes([AllOk EXCEPT !.tcl = "D3DERR_DEVICENOTRESET", !.reset = r]) :
                   r \in BOOLEAN}
    \cup {[AllOk EXCEPT !.tcl = "D3DERR_DEVICENOTRESET", !.reset = FALSE, !.create = c] :
             c \in CreateCalls}
    \cup {[AllOk EXCEPT !.tcl = t, !.reset = FALSE, !.chain = FALSE] :
             t \in {"D3DERR_DEVICELOST", "D3DERR_DEVICENOTRESET"}}
    \cup {[AllOk EXCEPT !.tcl = "D3DERR_DEVICELOST", !.reset = r] : r \in BOOLEAN}
    \cup {[AllOk EXCEPT !.tcl = "D3DERR_DEVICELOST", !.reset = FALSE, !.create = "CreateDevice"]}

\* A frame arrives in a linear buffer, or in a 2-D buffer when the device
\* is healthy and the conversion succeeds.
DrawInputs ==
    {<<buf, o>> \in Buffers \X DrawOutcomes :
        buf.is2D => (o.tcl = "D3D_OK" /\ o.convert
                     /\ o.frame \in {"ok", "LockBuffer", "UnlockRect", "Present"})}

\* setVideoType creates the swap chain only for a type it can read in full.
VideoTypeInputs ==
    {<<t, o>> \in MediaTypes \X ChainOutcomes : ~o.chain => t \in NativeTypes}

(***************************************************************************)
(* Camera state (used by SpecCam)                                          *)
(***************************************************************************)
\* The thread of the application's windows, which calls the public
\* operations, and the Media Foundation thread that calls OnReadSample.
Threads == {"app", "mf", "dev"}

\* A Camera as its constructor leaves it; mMutex is "free" or names the
\* thread that holds it.
NewCamera == [mReader |-> NULL, mSymbolicLink |-> NULL, mMutex |-> "free",
              mWidth |-> 1280, mHeight |-> 720]

\* What a thread keeps across its steps.
\*   inOp       the operation of mDrawDevice it is inside, or "none"
\*   back       where its closeDevice returns to
\*   sample     OnReadSample was given a sample
\*   requested  OnReadSample has called ReadSample
\*   i          the index setupOutputFormat's loop is at
NoLocals == [inOp |-> "none", back |-> "idle", sample |-> FALSE, requested |-> FALSE, i |-> 0]

(***************************************************************************)
(* Spec: one DrawDevice, its public operations called in any order         *)
(***************************************************************************)
NoType   == MediaType("NONE", NoSize, "fail", NoPAR)
NoBuffer == [is2D |-> FALSE, scan0 |-> 0, pitch |-> 0]

Start == [d |-> dd, be |-> be, log |-> <<>>, fault |-> fault]

\* No helper function called yet.
ZeroRect == Rect(0, 0, 0, 0)

NoCall ==
    [name |-> "none", src |-> ZeroRect, dst |-> ZeroRect, par |-> <<1, 1>>, out |-> ZeroRect,
     fmt |-> D3DFMT_UNKNOWN, supported |-> FALSE, list |-> <<>>, found |-> NoConverter]

\* No VideoBufferLock object.
NoLock ==
    [alive |-> FALSE, l |-> VideoBufferLock(NoBuffer), buf |-> NoBuffer,
     op |-> "none", stride |-> 0, height |-> 0, ptr |-> NoPtr,
     locks |-> 0, unlocks |-> 0, acquires |-> 0, calls |-> <<>>]

(***************************************************************************)
(* The format converters                                                   *)
(***************************************************************************)
Clip(clr) == IF clr < 0 THEN 0 ELSE IF clr > 255 THEN 255 ELSE clr

\* x >> 8 of an int (arithmetic shift on the build's compiler).
Shr8(x) == x \div 256

\* ConvertYCrCbToRGB with the two chroma arguments exchanged.
ConvertYCrCbToRGBExchanged(y, cr, cb) ==
    [rgbRed   |-> Clip(Shr8(298 * (y - 16) + 409 * (cb - 128) + 128)),
     rgbGreen |-> Clip(Shr8(298 * (y - 16) - 100 * (cr - 128) - 208 * (cb - 128) + 128)),
     rgbBlue  |-> Clip(Shr8(298 * (y - 16) + 516 * (cr - 128) + 128))]

ConvertYCrCbToRGB(y, cr, cb) ==
    LET c == y - 16
        d == cb - 128
        e == cr - 128
    IN  [rgbRed   |-> Clip(Shr8(298 * c + 409 * e + 128)),
         rgbGreen |-> Clip(Shr8(298 * c - 100 * d - 208 * e + 128)),
         rgbBlue  |-> Clip(Shr8(298 * c + 516 * d + 128))]

\* FormatConvertorYUY2::convert with both pixels of a pair taken from the
\* first luma byte.
FormatConvertorYUY2_convertFirstLuma(source, srcStride, width, height) ==
    [y \in 0..(height - 1) |->
        [x \in 0..(width - 1) |->
            LET at == y * srcStride + 2 * (x - (x % 2))
            IN  ConvertYCrCbToRGB(source[at], source[at + 3], source[at + 1])]]

\* FormatConvertorYUY2::convert: the pixels written to the destination, by
\* row and column.  pSrcPel[x] is the 16-bit word at byte 2x of the row;
\* LOBYTE is the byte at the lower address (little-endian build).
FormatConvertorYUY2_convert(source, srcStride, width, height) ==
    [y \in 0..(height - 1) |->
        [x \in 0..(width - 1) |->
            LET at == y * srcStride + 2 * (x - (x % 2))
                y0 == source[at]
                u0 == source[at + 1]
                y1 == source[at + 2]
                v0 == source[at + 3]
            IN  IF x % 2 = 0 THEN ConvertYCrCbToRGB(y0, v0, u0)
                             ELSE ConvertYCrCbToRGB(y1, v0, u0)]]

\* FormatConvertorNV12::convert: the pixels written to the destination.
\* The chroma plane starts at height * srcStride; a chroma row serves two
\* luma rows, a Cb, Cr byte pair two columns.
FormatConvertorNV12_convert(source, srcStride, width, height) ==
    [y \in 0..(height - 1) |->
        [x \in 0..(width - 1) |->
            LET lpBitsCb == height * srcStride
                lpLineCb == lpBitsCb + (y \div 2) * srcStride + 2 * (x \div 2)
            IN  ConvertYCrCbToRGB(source[y * srcStride + x],
                                  source[lpLineCb + 1], source[lpLineCb])]]

NoConv == [name |-> "none", layout |-> "none", width |-> 0, height |-> 0, srcStride |-> 0,
           yuv |-> <<0, 0, 0>>, source |-> <<>>, out |-> <<>>]

Done(op, hwnd, mt, buf, o, r) ==
    /\ dd' = r.s.d
    /\ be' = r.s.be
    /\ fault' = r.s.fault
    /\ last' = [op |-> op, hwnd |-> hwnd, mt |-> mt, buf |-> buf, o |-> o,
                ret |-> r.ret, log |-> r.s.log]

Init ==
    /\ dd = NewDrawDevice
    /\ be = NewBackend
    /\ client \in [Windows -> {<<1280, 720>>}]
    /\ fault = "none"
    /\ last = [op |-> "DrawDevice", hwnd |-> NULL, mt |-> NoType, buf |-> NoBuffer,
               o |-> AllOk, ret |-> TRUE, log |-> <<>>]
    /\ cam = NewCamera
    /\ pc = [t \in Threads |-> "idle"]
    /\ loc = [t \in Threads |-> NoLocals]
    /\ pending = 0
    /\ fn = NoCall
    /\ vbl = NoLock
    /\ conv = NoConv

\* The outcomes an operation can meet in the state it starts in: only the
\* backend calls it gets to make have one.
\* The device is created for the video window or with no window; once it
\* exists createDevice is called with any window.
CreateInputs ==
    IF dd.mDevice # NULL THEN {VideoWindow, AppWindow, NULL} \X {AllOk}
    ELSE {VideoWindow, NULL}
         \X {o \in CreateOutcomes : dd.mD3D # NULL => o.create # "Direct3DCreate9"}

VideoInputs ==
    {in \in VideoTypeInputs : dd.mDevice = NULL => in[2].chain}

ResetInputs ==
    {o \in ResetOutcomes :
        /\ dd.mDevice = NULL => ~o.reset
        /\ dd.mD3D # NULL /\ dd.mDevice = NULL => o.create # "Direct3DCreate9"
        /\ dd.mFormat = D3DFMT_UNKNOWN \/ (o.reset /\ dd.mSwapChain # NULL) => o.chain}

FrameInputs ==
    IF dd.mRGB32Converter = NoConverter \/ dd.mDevice = NULL \/ dd.mSwapChain = NULL
    THEN {<<buf, AllOk>> : buf \in Buffers}
    ELSE {in \in DrawInputs :
             dd.mRGB32Converter # "FormatConvertorRGB32" => in[2].convert}

CallCreateDevice ==
    /\ fault = "none"
    /\ \E in \in CreateInputs :
          Done("createDevice", in[1], NoType, NoBuffer, in[2], createDevice(Start, in[1], in[2]))
    /\ UNCHANGED <<client, cam, pc, loc, pending>>
    /\ UNCHANGED <<fn, vbl, conv>>

CallSetVideoType ==
    /\ fault = "none"
    /\ \E in \in VideoInputs :
          Done("setVideoType", NULL, in[1], NoBuffer, in[2], setVideoType(Start, in[1], in[2]))
    /\ UNCHANGED <<client, cam, pc, loc, pending>>
    /\ UNCHANGED <<fn, vbl, conv>>

CallDrawFrame ==
    /\ fault = "none"
    /\ \E in \in FrameInputs :
          Done("DrawFrame", NULL, NoType, in[1], in[2], DrawFrame(Start, in[1], in[2]))
    /\ UNCHANGED <<client, cam, pc, loc, pending>>
    /\ UNCHANGED <<fn, vbl, conv>>

CallResetDevice ==
    /\ fault = "none"
    /\ \E o \in ResetInputs :
          Done("resetDevice", NULL, NoType, NoBuffer, o, resetDevice(Start, o))
    /\ UNCHANGED <<client, cam, pc, loc, pending>>
    /\ UNCHANGED <<fn, vbl, conv>>

CallDestroyDevice ==
    /\ fault = "none"
    /\ Done("DestroyDevice", NULL, NoType, NoBuffer, AllOk, Ret(DestroyDevice(Start), TRUE))
    /\ UNCHANGED <<client, cam, pc, loc, pending>>
    /\ UNCHANGED <<fn, vbl, conv>>

\* The user resizes the video window.
WindowResized ==
    /\ fault = "none"
    /\ \E sz \in ClientSizes :
          /\ client[VideoWindow] # sz
          /\ client' = [client EXCEPT ![VideoWindow] = sz]
    /\ last' = [op |-> "WM_SIZE", hwnd |-> NULL, mt |-> NoType, buf |-> NoBuffer,
                o |-> AllOk, ret |-> TRUE, log |-> <<>>]
    /\ UNCHANGED <<dd, be, fault, cam, pc, loc, pending>>
    /\ UNCHANGED <<fn, vbl, conv>>

Next ==
    \/ CallCreateDevice
    \/ CallSetVideoType
    \/ CallDrawFrame
    \/ CallResetDevice
    \/ CallDestroyDevice
    \/ WindowResized

Spec == Init /\ [][Next]_vars

(***************************************************************************)
(* SpecCam: a Camera, its public operations called by the application      *)
(* thread and OnReadSample called by the Media Foundation thread. A step   *)
(* runs from one acquisition or release of mMutex, or one entry to or      *)
(* return from an operation of mDrawDevice, to the next.                   *)
(***************************************************************************)
\* The native types the reader offers at most.
MaxNativeTypes == 2

\* The types that pass checkRequiredResolution and adjustMediaTypeToDevice:
\* the frame size is the one the camera was constructed for and the subtype
\* has a converter.
CamTypes ==
    {t \in MediaTypes : /\ t.size = <<cam.mWidth, cam.mHeight>>
                        /\ findConversionFunction(t.subtype) # NoConverter}

InitCam ==
    /\ dd = NewDrawDevice
    /\ be = NewBackend
    /\ client \in [Windows -> {<<1280, 720>>}]
    /\ fault = "none"
    /\ last = [op |-> "DrawDevice", hwnd |-> NULL, mt |-> NoType, buf |-> NoBuffer,
               o |-> AllOk, ret |-> TRUE, log |-> <<>>]
    /\ cam \in {[NewCamera EXCEPT !.mWidth = t.size[1], !.mHeight = t.size[2]] :
                   t \in NativeTypes}
    /\ pc = [t \in Threads |-> IF t = "app" THEN "new" ELSE "idle"]
    /\ loc = [t \in Threads |-> NoLocals]
    /\ pending = 0
    /\ fn = NoCall
    /\ vbl = NoLock
    /\ conv = NoConv

Goto(t, p) == pc' = [pc EXCEPT ![t] = p]

\* Thread t enters operation op of mDrawDevice with locals l. Another
\* thread inside an operation of the same device makes it a data race.
Enter(t, op, l) ==
    /\ loc' = [l EXCEPT ![t].inOp = op]
    /\ fault' = IF \E u \in Threads \ {t} : loc[u].inOp # "none" THEN "data race" ELSE fault

\* Camera::init calls createDevice.
CameraInit ==
    /\ fault = "none"
    /\ pc["app"] = "new"
    /\ Goto("app", "init: createDevice")
    /\ Enter("app", "createDevice", loc)
    /\ UNCHANGED <<dd, be, client, last, cam, pending>>
    /\ UNCHANGED <<fn, vbl, conv>>

\* createDevice returns to init, which looks for the first capture device
\* and calls setDevice, which starts by closeDevice.
InitCreateDeviceReturns(o, r, found) ==
    /\ r.ret \/ found
    /\ Done("createDevice", VideoWindow, NoType, NoBuffer, o, r)
    /\ Goto("app", IF r.ret /\ found THEN "closeDevice" ELSE "idle")
    /\ loc' = [loc EXCEPT !["app"].inOp = "none",
                          !["app"].back = IF r.ret /\ found THEN "setDevice" ELSE "idle"]

InitCreateDevice ==
    /\ fault = "none"
    /\ pc["app"] = "init: createDevice"
    /\ \E in \in CreateInputs, found \in BOOLEAN :
          /\ in[1] = VideoWindow
          /\ InitCreateDeviceReturns(in[2], createDevice(Start, VideoWindow, in[2]), found)
    /\ UNCHANGED <<client, cam, pending>>
    /\ UNCHANGED <<fn, vbl, conv>>

\* The application calls setDevice, closeDevice or deletes the camera.
CallCloseDevice ==
    /\ fault = "none"
    /\ pc["app"] = "idle"
    /\ \E b \in {"setDevice", "idle", "~Camera"} :
          loc' = [loc EXCEPT !["app"].back = b]
    /\ Goto("app", "closeDevice")
    /\ UNCHANGED <<dd, be, client, fault, last, cam, pending>>
    /\ UNCHANGED <<fn, vbl, conv>>

\* closeDevice's block: mMutex is taken, the reader released, mMutex
\* released. Read requests of a released reader are not delivered. Taking
\* mMutex in the thread that holds it is undefined.
CloseDeviceReader ==
    /\ fault = "none"
    /\ pc["app"] = "closeDevice"
    /\ IF cam.mMutex = "app"
       THEN /\ fault' = "mutex locked by its owner"
            /\ UNCHANGED <<cam, pending, pc>>
       ELSE /\ cam.mMutex = "free"
            /\ cam' = [cam EXCEPT !.mReader = NULL]
            /\ pending' = 0
            /\ Goto("app", "closeDevice: free")
            /\ UNCHANGED fault
    /\ UNCHANGED <<dd, be, client, last, loc>>
    /\ UNCHANGED <<fn, vbl, conv>>

\* closeDevice frees the symbolic link and returns: to the application, to
\* setDevice, or to ~Camera, which calls DestroyDevice.
CloseDeviceLink ==
    /\ fault = "none"
    /\ pc["app"] = "closeDevice: free"
    /\ LET back == loc["app"].back
           l    == [loc EXCEPT !["app"].back = "idle"]
       IN  /\ cam' = [cam EXCEPT !.mSymbolicLink = NULL,
                                 !.mMutex = IF back = "setDevice failed" THEN "free" ELSE @]
           /\ IF back = "~Camera"
              THEN Goto("app", "~Camera: DestroyDevice") /\ Enter("app", "DestroyDevice", l)
              ELSE /\ Goto("app", IF back = "setDevice" THEN "setDevice: createSource" ELSE "idle")
                   /\ loc' = l
                   /\ UNCHANGED fault
    /\ UNCHANGED <<dd, be, client, last, pending>>
    /\ UNCHANGED <<fn, vbl, conv>>

\* DestroyDevice returns to ~Camera.
DestructorDestroyDevice ==
    /\ fault = "none"
    /\ pc["app"] = "~Camera: DestroyDevice"
    /\ Done("DestroyDevice", NULL, NoType, NoBuffer, AllOk, Ret(DestroyDevice(Start), TRUE))
    /\ Goto("app", "destroyed")
    /\ loc' = [loc EXCEPT !["app"].inOp = "none"]
    /\ UNCHANGED <<client, cam, pending>>
    /\ UNCHANGED <<fn, vbl, conv>>

\* setDevice creates the media source and reads the symbolic link.
SetDeviceSource ==
    /\ fault = "none"
    /\ pc["app"] = "setDevice: createSource"
    /\ \E failed \in {"createSource", "GetAllocatedString", "none"} :
          /\ cam' = [cam EXCEPT !.mSymbolicLink = IF failed = "none" THEN Object ELSE @]
          /\ Goto("app", IF failed = "none" THEN "setDevice: lock" ELSE "idle")
    /\ UNCHANGED <<dd, be, client, fault, last, loc, pending>>
    /\ UNCHANGED <<fn, vbl, conv>>

\* setDevice takes mMutex and creates the reader.
SetDeviceReader ==
    /\ fault = "none"
    /\ pc["app"] = "setDevice: lock"
    /\ cam.mMutex = "free"
    /\ \E created \in BOOLEAN :
          /\ cam' = [cam EXCEPT !.mReader = IF created THEN Object ELSE NULL,
                                !.mMutex = IF created THEN "app" ELSE "free"]
          /\ Goto("app", IF created THEN "setupOutputFormat" ELSE "idle")
    /\ loc' = [loc EXCEPT !["app"].i = 0]
    /\ UNCHANGED <<dd, be, client, fault, last, pending>>
    /\ UNCHANGED <<fn, vbl, conv>>

\* One round of setupOutputFormat's loop: the reader has no type at the
\* index, or the type is passed over, or setVideoType is called with it.
SetupOutputFormat ==
    /\ fault = "none"
    /\ pc["app"] = "setupOutputFormat"
    /\ \E step \in {"break", "continue", "setVideoType"} :
          /\ step # "break" => loc["app"].i < MaxNativeTypes
          /\ CASE step = "break" ->
                    /\ cam' = [cam EXCEPT !.mMutex = "free"]
                    /\ Goto("app", "idle")
                    /\ loc' = [loc EXCEPT !["app"].i = 0]
                    /\ UNCHANGED fault
               [] step = "continue" ->
                    /\ loc' = [loc EXCEPT !["app"].i = @ + 1]
                    /\ UNCHANGED <<cam, pc, fault>>
               [] step = "setVideoType" ->
                    /\ Goto("app", "setupOutputFormat: setVideoType")
                    /\ Enter("app", "setVideoType", loc)
                    /\ UNCHANGED cam
    /\ UNCHANGED <<dd, be, client, last, pending>>
    /\ UNCHANGED <<fn, vbl, conv>>

\* setVideoType returns to setupOutputFormat.
SetupSetVideoTypeReturns(t, o, r) ==
    /\ Done("setVideoType", NULL, t, NoBuffer, o, r)
    /\ Goto("app", IF r.ret THEN "setDevice: ReadSample" ELSE "setupOutputFormat")
    /\ loc' = [loc EXCEPT !["app"].inOp = "none",
                          !["app"].i = IF r.ret THEN 0 ELSE @ + 1]

SetupSetVideoType ==
    /\ fault = "none"
    /\ pc["app"] = "setupOutputFormat: setVideoType"
    /\ \E in \in VideoInputs :
          /\ in[1] \in CamTypes
          /\ SetupSetVideoTypeReturns(in[1], in[2], setVideoType(Start, in[1], in[2]))
    /\ UNCHANGED <<client, cam, pending>>
    /\ UNCHANGED <<fn, vbl, conv>>

\* setDevice asks for the first sample; when that fails it calls
\* closeDevice with mMutex held.
SetDeviceReadSample ==
    /\ fault = "none"
    /\ pc["app"] = "setDevice: ReadSample"
    /\ \E ok \in BOOLEAN :
          IF ok
          THEN /\ pending' = pending + 1
               /\ cam' = [cam EXCEPT !.mMutex = "free"]
               /\ Goto("app", "idle")
               /\ UNCHANGED loc
          ELSE /\ Goto("app", "closeDevice")
               /\ loc' = [loc EXCEPT !["app"].back = "setDevice failed"]
               /\ UNCHANGED <<cam, pending>>
    /\ UNCHANGED <<dd, be, client, fault, last>>
    /\ UNCHANGED <<fn, vbl, conv>>

\* The video window is resized and the application calls resizeVideo,
\* which takes mMutex and calls resetDevice.
CallResizeVideo ==
    /\ fault = "none"
    /\ pc["app"] = "idle"
    /\ cam.mMutex = "free"
    /\ \E sz \in ClientSizes : client' = [client EXCEPT ![VideoWindow] = sz]
    /\ cam' = [cam EXCEPT !.mMutex = "app"]
    /\ Goto("app", "resizeVideo: resetDevice")
    /\ Enter("app", "resetDevice", loc)
    /\ UNCHANGED <<dd, be, last, pending>>
    /\ UNCHANGED <<fn, vbl, conv>>

\* resetDevice returns to resizeVideo, which releases mMutex.
ResizeResetDevice ==
    /\ fault = "none"
    /\ pc["app"] = "resizeVideo: resetDevice"
    /\ \E o \in ResetInputs :
          Done("resetDevice", NULL, NoType, NoBuffer, o, resetDevice(Start, o))
    /\ cam' = [cam EXCEPT !.mMutex = "free"]
    /\ Goto("app", "idle")
    /\ loc' = [loc EXCEPT !["app"].inOp = "none"]
    /\ UNCHANGED <<client, pending>>
    /\ UNCHANGED <<fn, vbl, conv>>

\* The reader answers a read request: OnReadSample is called, with a
\* failed status or with a sample or with neither.
OnReadSample ==
    /\ fault = "none"
    /\ pc["mf"] = "idle"
    /\ cam.mReader # NULL
    /\ pending > 0
    /\ pending' = pending - 1
    /\ \E given \in {"failed", "sample", "nothing"} :
          /\ loc' = [loc EXCEPT !["mf"].sample = (given = "sample"),
                                !["mf"].requested = FALSE]
          /\ Goto("mf", IF given = "failed" THEN "idle" ELSE "OnReadSample: lock")
    /\ UNCHANGED <<dd, be, client, fault, last, cam>>
    /\ UNCHANGED <<fn, vbl, conv>>

\* OnReadSample takes mMutex.
OnReadSampleLock ==
    /\ fault = "none"
    /\ pc["mf"] = "OnReadSample: lock"
    /\ cam.mMutex = "free"
    /\ cam' = [cam EXCEPT !.mMutex = "mf"]
    /\ Goto("mf", IF loc["mf"].sample THEN "drawSample" ELSE "OnReadSample: ReadSample")
    /\ UNCHANGED <<dd, be, client, fault, last, loc, pending>>
    /\ UNCHANGED <<fn, vbl, conv>>

\* drawSample gets the buffer of the sample and calls DrawFrame; without
\* the buffer it fails and OnReadSample returns.
DrawSample ==
    /\ fault = "none"
    /\ pc["mf"] = "drawSample"
    /\ \E got \in BOOLEAN :
          IF got
          THEN /\ Goto("mf", "drawSample: DrawFrame")
               /\ Enter("mf", "DrawFrame", loc)
               /\ UNCHANGED cam
          ELSE /\ cam' = [cam EXCEPT !.mMutex = "free"]
               /\ Goto("mf", "idle")
               /\ UNCHANGED <<loc, fault>>
    /\ UNCHANGED <<dd, be, client, last, pending>>
    /\ UNCHANGED <<fn, vbl, conv>>

\* DrawFrame returns to drawSample; when it failed OnReadSample returns.
DrawSampleDrawFrameReturns(buf, o, r) ==
    /\ Done("DrawFrame", NULL, NoType, buf, o, r)
    /\ Goto("mf", IF r.ret THEN "OnReadSample: ReadSample" ELSE "idle")
    /\ cam' = [cam EXCEPT !.mMutex = IF r.ret THEN @ ELSE "free"]

DrawSampleDrawFrame ==
    /\ fault = "none"
    /\ pc["mf"] = "drawSample: DrawFrame"
    /\ \E in \in FrameInputs :
          DrawSampleDrawFrameReturns(in[1], in[2], DrawFrame(Start, in[1], in[2]))
    /\ loc' = [loc EXCEPT !["mf"].inOp = "none"]
    /\ UNCHANGED <<client, pending>>
    /\ UNCHANGED <<fn, vbl, conv>>

\* OnReadSample asks mReader for the next sample and returns.
OnReadSampleReadSample ==
    /\ fault = "none"
    /\ pc["mf"] = "OnReadSample: ReadSample"
    /\ IF cam.mReader = NULL
       THEN /\ fault' = "null dereference"
            /\ UNCHANGED <<cam, pc, loc, pending>>
       ELSE /\ \E ok \in BOOLEAN : pending' = IF ok THEN pending + 1 ELSE pending
            /\ loc' = [loc EXCEPT !["mf"].requested = TRUE]
            /\ cam' = [cam EXCEPT !.mMutex = "free"]
            /\ Goto("mf", "idle")
            /\ UNCHANGED fault
    /\ UNCHANGED <<dd, be, client, last>>
    /\ UNCHANGED <<fn, vbl, conv>>

\* The places of closeDevice and setDevice at which the thread is about to
\* free or assign mSymbolicLink.
LinkWrites == {"closeDevice: free", "setDevice: createSource"}

\* A device-change notification: isDeviceLost is called with a device
\* interface header and takes mMutex.
IsDeviceLost ==
    /\ fault = "none"
    /\ pc["dev"] = "idle"
    /\ pc["app"] \notin {"new", "destroyed"}
    /\ cam.mMutex = "free"
    /\ cam' = [cam EXCEPT !.mMutex = "dev"]
    /\ Goto("dev", "isDeviceLost: read")
    /\ UNCHANGED <<dd, be, client, fault, last, loc, pending>>
    /\ UNCHANGED <<fn, vbl, conv>>

\* isDeviceLost tests and compares mSymbolicLink, and returns. Another
\* thread about to free or assign the string makes it a data race.
IsDeviceLostRead ==
    /\ pc["dev"] = "isDeviceLost: read"
    /\ fault = "none"
    /\ IF pc["app"] \in LinkWrites
       THEN /\ fault' = "data race"
            /\ UNCHANGED <<cam, pc>>
       ELSE /\ cam' = [cam EXCEPT !.mMutex = "free"]
            /\ Goto("dev", "idle")
            /\ UNCHANGED fault
    /\ UNCHANGED <<dd, be, client, last, loc, pending>>
    /\ UNCHANGED <<fn, vbl, conv>>

NextCam ==
    \/ CameraInit
    \/ InitCreateDevice
    \/ CallCloseDevice
    \/ CloseDeviceReader
    \/ CloseDeviceLink
    \/ DestructorDestroyDevice
    \/ SetDeviceSource
    \/ SetDeviceReader
    \/ SetupOutputFormat
    \/ SetupSetVideoType
    \/ SetDeviceReadSample
    \/ CallResizeVideo
    \/ ResizeResetDevice
    \/ OnReadSample
    \/ OnReadSampleLock
    \/ DrawSample
    \/ DrawSampleDrawFrame
    \/ OnReadSampleReadSample
    \/ IsDeviceLost
    \/ IsDeviceLostRead

SpecCam == InitCam /\ [][NextCam]_vars

(***************************************************************************)
(* SpecFn: the geometry helpers and the converter registry, called with    *)
(* arguments from bounded sets                                             *)
(***************************************************************************)
\* Sizes, origins and pixel aspect ratios the helpers are called with.
GeomSizes ==
    {<<1, 1>>, <<2, 3>>, <<3, 2>>, <<4, 3>>, <<5, 1>>, <<1, 7>>, <<16, 9>>, <<64, 36>>,
     <<640, 480>>, <<720, 486>>, <<800, 600>>, <<1280, 720>>, <<1920, 1080>>}

GeomOrigins == {<<0, 0>>, <<3, 5>>, <<-4, -2>>}

GeomRects ==
    {Rect(p[1], p[2], p[1] + sz[1], p[2] + sz[2]) : p \in GeomOrigins, sz \in GeomSizes}

GeomPARs == {<<1, 1>>, <<2, 2>>, <<10, 9>>, <<9, 10>>, <<2, 1>>, <<1, 2>>, <<4, 3>>, <<8, 9>>}

\* The subtypes the registry is asked about.
Formats == {"RGB32", "RGB24", "YUY2", "NV12", "I420", "RGB8", Unsupported}

CallCorrectAspectRatio ==
    /\ fn = NoCall
    /\ \E src \in GeomRects, par \in GeomPARs :
          fn' = [NoCall EXCEPT !.name = "CorrectAspectRatio", !.src = src, !.par = par,
                               !.out = CorrectAspectRatio(src, par)]
    /\ UNCHANGED <<dd, be, client, fault, last, cam, pc, loc, pending, vbl, conv>>

CallLetterBoxRect ==
    /\ fn = NoCall
    /\ \E src \in GeomRects, dst \in GeomRects :
          fn' = [NoCall EXCEPT !.name = "LetterBoxRect", !.src = src, !.dst = dst,
                               !.out = LetterBoxRect(src, dst)]
    /\ UNCHANGED <<dd, be, client, fault, last, cam, pc, loc, pending, vbl, conv>>

\* isFormatSupported, getSupportedFormats and the converter lookup of
\* setVideoType, asked about one subtype.
CallRegistry ==
    /\ fn = NoCall
    /\ \E f \in Formats :
          fn' = [NoCall EXCEPT !.name = "registry", !.fmt = f,
                               !.supported = isFormatSupported(f),
                               !.list = getSupportedFormats,
                               !.found = findConversionFunction(f)]
    /\ UNCHANGED <<dd, be, client, fault, last, cam, pc, loc, pending, vbl, conv>>

NextFn ==
    \/ CallCorrectAspectRatio
    \/ CallLetterBoxRect
    \/ CallRegistry

SpecFn == Init /\ [][NextFn]_vars

(***************************************************************************)
(* SpecLock: one VideoBufferLock object, constructed on a frame buffer,    *)
(* then LockBuffer and unlock called in any order until it is destroyed    *)
(***************************************************************************)
\* LockBuffer is called at most this many times on the object.
MaxAcquires == 2

\* The frame buffers: linear, 2-D top-down with padded rows, 2-D bottom-up.
LockBuffers ==
    Buffers \cup {[is2D |-> TRUE, scan0 |-> 8192, pitch |-> -4096]}

\* The default strides (negative: bottom-up) and heights LockBuffer is
\* called with.
LockStrides == {-2560, -12, 12, 2560}
LockHeights == {1, 2, 3}

\* VideoBufferLock buffer(pBuffer)
Construct ==
    /\ vbl = NoLock
    /\ \E buf \in LockBuffers :
          vbl' = [NoLock EXCEPT !.alive = TRUE, !.l = VideoBufferLock(buf), !.buf = buf,
                                !.op = "VideoBufferLock"]
    /\ UNCHANGED <<dd, be, client, fault, last, cam, pc, loc, pending, fn, conv>>

\* The object after LockBuffer(stride, height) returned r; the frame
\* buffer counts its successful locks.
Acquired(stride, height, r) ==
    [vbl EXCEPT !.l = r.lock, !.op = "LockBuffer", !.stride = stride, !.height = height,
                !.ptr = r.ptr,
                !.locks = IF r.ptr # NoPtr THEN @ + 1 ELSE @,
                !.acquires = @ + 1,
                !.calls = Append(@, IF r.ptr # NoPtr THEN r.call ELSE "failed")]

CallLockBuffer ==
    /\ vbl.alive
    /\ vbl.acquires < MaxAcquires
    /\ \E stride \in LockStrides, height \in LockHeights, ok \in BOOLEAN :
          vbl' = Acquired(stride, height,
                          LockBuffer(vbl.l, ToUint32(stride), height, vbl.buf, ok))
    /\ UNCHANGED <<dd, be, client, fault, last, cam, pc, loc, pending, fn, conv>>

\* The object after unlock() returned r.
Released(op, r) ==
    [vbl EXCEPT !.l = r.lock, !.op = op,
                !.unlocks = @ + Len(r.calls),
                !.calls = @ \o r.calls]

CallUnlock ==
    /\ vbl.alive
    /\ vbl' = Released("unlock", unlock(vbl.l))
    /\ UNCHANGED <<dd, be, client, fault, last, cam, pc, loc, pending, fn, conv>>

\* ~VideoBufferLock: unlock(), then the buffer is released.
Destruct ==
    /\ vbl.alive
    /\ vbl' = [Released("~VideoBufferLock", unlock(vbl.l)) EXCEPT !.alive = FALSE]
    /\ UNCHANGED <<dd, be, client, fault, last, cam, pc, loc, pending, fn, conv>>

NextLock ==
    \/ Construct
    \/ CallLockBuffer
    \/ CallUnlock
    \/ Destruct

SpecLock == Init /\ [][NextLock]_vars

(***************************************************************************)
(* SpecConv: one call of a YCbCr converter on a source frame               *)
(***************************************************************************)
\* Frame sizes (both even, as the chroma-subsampled formats require) and
\* the padding bytes that follow the pixels of a source row.
ConvSizes    == {<<2, 2>>, <<4, 2>>, <<2, 4>>}
ConvPaddings == {0, 4}

\* Sample values: black, white and the out-of-range ends for luma; neutral
\* and extreme chroma.
LumaValues   == {0, 16, 128, 235, 255}
ChromaValues == {0, 16, 128, 240, 255}

\* Bytes of a frame whose content changes from byte to byte.
RampSeeds == {0, 100, 200}
RampSteps == {1, 7, 37}
RampFrame(size, seed, step) == [k \in 0..(size - 1) |-> (seed + step * k) % 256]

\* A packed 4:2:2 frame of one colour: order is the position of Y0, Cb, Y1,
\* Cr in each 4-byte group; padding bytes are 0.
Packed422Frame(order, w, h, stride, Y, Cb, Cr) ==
    [k \in 0..(h * stride - 1) |->
        IF k % stride >= 2 * w THEN 0
        ELSE <<Y, Cb, Y, Cr>>[order[((k % stride) % 4) + 1]]]

\* Position k of a group holds: 1 = Y0, 2 = Cb, 3 = Y1, 4 = Cr.
OrderYUY2 == <<1, 2, 3, 4>>
OrderUYVY == <<2, 1, 4, 3>>

\* A 4:2:0 frame of one colour: the luma plane, then the plane of
\* interleaved Cb, Cr pairs.
NV12Frame(w, h, stride, Y, Cb, Cr) ==
    [k \in 0..(h * stride + (h \div 2) * stride - 1) |->
        IF k % stride >= w THEN 0
        ELSE IF k < h * stride THEN Y
        ELSE IF (k % stride) % 2 = 0 THEN Cb ELSE Cr]

\* The source frames of a w x h call of the 4:2:2 converter, each with the
\* layout and the colour it was built from.
YUY2Sources(w, h, stride) ==
    {[layout |-> l, yuv |-> <<Y, Cb, Cr>>,
      source |-> Packed422Frame(IF l = "YUY2" THEN OrderYUY2 ELSE OrderUYVY,
                                w, h, stride, Y, Cb, Cr)] :
        l \in {"YUY2", "UYVY"}, Y \in LumaValues, Cb \in ChromaValues, Cr \in ChromaValues}
    \cup
    {[layout |-> "ramp", yuv |-> <<seed, step, 0>>,
      source |-> RampFrame(h * stride, seed, step)] : seed \in RampSeeds, step \in RampSteps}

NV12Sources(w, h, stride) ==
    {[layout |-> "NV12", yuv |-> <<Y, Cb, Cr>>,
      source |-> NV12Frame(w, h, stride, Y, Cb, Cr)] :
        Y \in LumaValues, Cb \in ChromaValues, Cr \in ChromaValues}
    \cup
    {[layout |-> "ramp", yuv |-> <<seed, step, 0>>,
      source |-> RampFrame(h * stride + (h \div 2) * stride, seed, step)] :
        seed \in RampSeeds, step \in RampSteps}

Converted(name, f, sz, stride, out) ==
    conv' = [name |-> name, layout |-> f.layout, width |-> sz[1], height |-> sz[2],
             srcStride |-> stride, yuv |-> f.yuv, source |-> f.source, out |-> out]

CallConvertYUY2 ==
    /\ conv.name = "none"
    /\ \E sz \in ConvSizes, pad \in ConvPaddings :
          \E f \in YUY2Sources(sz[1], sz[2], 2 * sz[1] + pad) :
             Converted("FormatConvertorYUY2", f, sz, 2 * sz[1] + pad,
                       FormatConvertorYUY2_convert(f.source, 2 * sz[1] + pad, sz[1], sz[2]))
    /\ UNCHANGED <<dd, be, client, fault, last, cam, pc, loc, pending, fn, vbl>>

CallConvertNV12 ==
    /\ conv.name = "none"
    /\ \E sz \in ConvSizes, pad \in ConvPaddings :
          \E f \in NV12Sources(sz[1], sz[2], sz[1] + pad) :
             Converted("FormatConvertorNV12", f, sz, sz[1] + pad,
                       FormatConvertorNV12_convert(f.source, sz[1] + pad, sz[1], sz[2]))
    /\ UNCHANGED <<dd, be, client, fault, last, cam, pc, loc, pending, fn, vbl>>

NextConv ==
    \/ CallConvertYUY2
    \/ CallConvertNV12

SpecConv == Init /\ [][NextConv]_vars

(***************************************************************************)
(* Properties of the DrawDevice (checked under Spec)                       *)
(***************************************************************************)
\* The calls the operation l made include x / how many times it made x.
Made(l, x)  == \E i \in DOMAIN l.log : l.log[i] = x
Times(l, x) == Cardinality({i \in DOMAIN l.log : l.log[i] = x})

\* The calls of DrawFrame's drawing part.
DrawingCalls ==
    {"SwapChain.GetBackBuffer", "LockRect", "Lock", "Lock2D", "convert", "convert failed",
     "UnlockRect", "Device.GetBackBuffer", "ColorFill", "StretchRect", "Present"}

\* The operation l presented a frame.
Presented(l) == Made(l, "Present") /\ l.o.frame # "Present"

\* l is a DrawFrame that found the device lost or in need of a reset.
DrewLost(l) ==
    /\ l.op = "DrawFrame"
    /\ Made(l, "TestCooperativeLevel")
    /\ l.o.tcl \in {"D3DERR_DEVICELOST", "D3DERR_DEVICENOTRESET"}

\* C1: a DrawFrame on a device with a swap chain whose health check reports
\* device-lost or needs-reset makes exactly one reset attempt and returns;
\* when the reset succeeds the same call goes on to the drawing part, and
\* converts and presents the frame when that part's calls succeed; when the
\* reset fails the call returns failure and makes no call of the drawing part.
C1_OneResetThenDraw ==
    DrewLost(last) =>
        /\ fault = "none"
        /\ Times(last, "resetDevice: true") + Times(last, "resetDevice: false") = 1
        /\ Times(last, "Reset") = 1
        /\ Made(last, "resetDevice: true") =>
              /\ Made(last, "SwapChain.GetBackBuffer")
              /\ last.o.frame = "ok" =>
                    /\ last.ret
                    /\ Made(last, "convert") \/ Made(last, "convert failed")
                    /\ Presented(last)
        /\ Made(last, "resetDevice: false") =>
              /\ ~last.ret
              /\ \A x \in DrawingCalls : ~Made(last, x)

\* A lost device was recreated by the reset and the frame presented.
C1_Witness ==
    /\ DrewLost(last)
    /\ Made(last, "resetDevice: true")
    /\ Made(last, "CreateDevice")
    /\ Presented(last)
    /\ last.ret

\* The letterbox of the stored geometry in the client area of the window.
LetterBoxOfGeometry ==
    LetterBoxRect(CorrectAspectRatio(Rect(0, 0, dd.mWidth, dd.mHeight), dd.mAspect),
                  Rect(0, 0, client[dd.mWindow][1], client[dd.mWindow][2]))

\* C2: a resetDevice that returns success while a video format is set has
\* created the swap chain and left the destination rectangle equal to the
\* letterbox of the stored geometry in the window's client area.
C2_ResetRecreatesChain ==
    (last.op = "resetDevice" /\ last.ret /\ dd.mFormat # D3DFMT_UNKNOWN) =>
        /\ Made(last, "CreateAdditionalSwapChain")
        /\ dd.mSwapChain # NULL
        /\ dd.mDestRect = LetterBoxOfGeometry

\* A call of l's DrawFrame failed: the health check, a call of the drawing
\* part, or the conversion.
StepFailed(l) ==
    \/ l.o.tcl = "D3DERR_DRIVERINTERNALERROR"
    \/ Made(l, "resetDevice: false")
    \/ l.o.frame # "ok"
    \/ Made(l, "convert failed")

\* C4: a DrawFrame one of whose sub-steps fails returns failure and
\* presents nothing.
C4_FailureMeansNoPresent ==
    (last.op = "DrawFrame" /\ Made(last, "TestCooperativeLevel") /\ StepFailed(last)) =>
        (~last.ret /\ ~Presented(last))

\* C5 as claimed: a DrawFrame called with no device or no swap chain
\* returns success and makes no backend call.
C5_NotReadyIsSuccess ==
    [][(last'.op = "DrawFrame" /\ (dd.mDevice = NULL \/ dd.mSwapChain = NULL)) =>
          (last'.ret /\ last'.log = <<>>)]_vars

\* C5 as amended: a DrawFrame called with no device or no swap chain makes
\* no backend call and changes nothing; it returns success when a
\* converter is selected and failure when none is.
C5_NotReadyIsNoOp ==
    [][(last'.op = "DrawFrame" /\ (dd.mDevice = NULL \/ dd.mSwapChain = NULL)) =>
          /\ last'.log = <<>>
          /\ dd' = dd /\ be' = be /\ fault' = fault
          /\ last'.ret = (dd.mRGB32Converter # NoConverter)]_vars

\* A DrawFrame with a converter selected and the device destroyed.
C5_Witness ==
    /\ last.op = "DrawFrame"
    /\ dd.mRGB32Converter # NoConverter
    /\ dd.mDevice = NULL
    /\ last.log = <<>>
    /\ last.ret

\* l is a DrawFrame on a healthy device that lost its frame: a call of the
\* drawing part or the conversion failed.
FrameFailed(l) ==
    /\ l.op = "DrawFrame"
    /\ Made(l, "TestCooperativeLevel")
    /\ l.o.tcl = "D3D_OK"
    /\ l.o.frame # "ok" \/ Made(l, "convert failed")

\* C6: a DrawFrame that loses its frame returns failure without presenting
\* and leaves the device, the swap chain and its surface, the geometry, the
\* converter and the destination rectangle as they were, and a DrawFrame
\* that follows it and whose calls all succeed returns success.
C6_OnlyTheFrameIsLost ==
    [][/\ FrameFailed(last') =>
              /\ ~last'.ret /\ ~Presented(last')
              /\ dd' = dd /\ be' = be /\ fault' = "none"
       /\ (FrameFailed(last) /\ last'.op = "DrawFrame" /\ last'.o = AllOk) =>
              (last'.ret /\ Presented(last') /\ dd' = dd)]_vars

\* C8: setVideoType with a subtype no converter is registered for returns
\* failure and leaves a device that had a format, a converter and a swap
\* chain as it was.
C8_UnsupportedKeepsFormat ==
    [][(last'.op = "setVideoType" /\ last'.mt.subtype = Unsupported
        /\ DrawFrameEntry(dd) = "draw") =>
          (~last'.ret /\ dd' = dd)]_vars

\* C9: createDevice on a device that exists returns success, makes no
\* backend call and changes nothing, whatever window it is given.
C9_CreateIsIdempotent ==
    [][(last'.op = "createDevice" /\ dd.mDevice # NULL) =>
          (last'.ret /\ last'.log = <<>> /\ dd' = dd /\ be' = be)]_vars

\* createDevice was called on an existing device with another window.
C9_Witness ==
    /\ last.op = "createDevice"
    /\ dd.mDevice # NULL
    /\ last.log = <<>>
    /\ last.hwnd = AppWindow
    /\ dd.mWindow = VideoWindow
    /\ dd.mSwapChain # NULL

\* C10 as claimed: a createDevice that fails leaves the backend context,
\* the device, the window and the presentation parameters as they were.
C10_FailedCreateKeepsNothing ==
    [][(last'.op = "createDevice" /\ ~last'.ret) =>
          /\ dd'.mD3D = dd.mD3D
          /\ dd'.mDevice = dd.mDevice
          /\ dd'.mWindow = dd.mWindow
          /\ dd'.mD3Params = dd.mD3Params]_vars

\* C10 as amended: a createDevice that fails leaves the device, the window,
\* the presentation parameters and every other member as they were, except
\* the backend context: one that existed is kept, and one the call created
\* (Direct3DCreate9 succeeded) stays.
C10_FailedCreateKeepsContext ==
    [][(last'.op = "createDevice" /\ ~last'.ret) =>
          /\ dd.mDevice = NULL
          /\ dd' = [dd EXCEPT !.mD3D = IF dd.mD3D = NULL /\ Made(last', "Direct3DCreate9")
                                          /\ last'.o.create # "Direct3DCreate9"
                                       THEN Object ELSE @]
          /\ dd.mD3D # NULL => dd' = dd]_vars

\* A createDevice that failed after it created the backend context.
C10_Witness ==
    /\ last.op = "createDevice"
    /\ ~last.ret
    /\ last.o.create = "CreateDevice"
    /\ Made(last, "Direct3DCreate9")
    /\ dd.mD3D # NULL
    /\ dd.mDevice = NULL

(***************************************************************************)
(* Properties of the Camera (checked under SpecCam)                        *)
(***************************************************************************)
\* C3: a thread inside an operation of the draw device holds mMutex, and
\* no two threads are inside operations of the draw device at once.
C3_DeviceOperationsUnderMutex ==
    \A t \in Threads :
        loc[t].inOp # "none" =>
            /\ cam.mMutex = t
            /\ \A u \in Threads \ {t} : loc[u].inOp = "none"

\* C7: an OnReadSample that was given a sample has asked the reader for the
\* next sample when it returns, while the reader is open.
C7_NextSampleRequested ==
    (pc["mf"] = "idle" /\ loc["mf"].sample /\ cam.mReader # NULL) => loc["mf"].requested

\* C27: setDevice never calls closeDevice, which takes mMutex, while it
\* holds mMutex itself.
C27_SetDeviceNeverRelocks ==
    /\ ~(pc["app"] = "closeDevice" /\ cam.mMutex = "app")
    /\ fault # "mutex locked by its owner"

\* C28: mReader is not null when OnReadSample calls mReader->ReadSample.
C28_ReaderAliveInCallback ==
    pc["mf"] = "OnReadSample: ReadSample" => cam.mReader # NULL

\* C29: isDeviceLost reads mSymbolicLink holding mMutex, and while it is
\* at that read no other thread is at the point of freeing or assigning
\* the string.
C29_LinkReadUnderMutex ==
    pc["dev"] = "isDeviceLost: read" =>
        /\ cam.mMutex = "dev"
        /\ pc["app"] \notin LinkWrites

(***************************************************************************)
(* Properties of the registry and the geometry helpers (checked under      *)
(* SpecFn)                                                                 *)
(***************************************************************************)
\* a/b rounded to the nearest integer, for a >= 0 and b > 0.
Rounded(a, b) == (2 * a + b) \div (2 * b)

Range(q) == {q[i] : i \in DOMAIN q}

\* C16: for every subtype, isFormatSupported is true exactly when the
\* subtype is in getSupportedFormats and exactly when the converter lookup
\* finds a converter; getSupportedFormats is RGB32, RGB24, YUY2, NV12 in
\* that order.
C16_RegistryIsFixed ==
    fn.name = "registry" =>
        /\ fn.supported <=> fn.fmt \in Range(fn.list)
        /\ fn.supported <=> fn.found # NoConverter
        /\ fn.list = <<"RGB32", "RGB24", "YUY2", "NV12">>

\* The registry was asked about the last format it holds.
C16_Witness ==
    fn.name = "registry" /\ fn.fmt = "NV12" /\ fn.supported /\ fn.found = "FormatConvertorNV12"

\* C17 as claimed: a 720x486 rectangle with pixel aspect ratio 10:9 is
\* corrected to width 720 and height 540.
C17_TenToNineIs720x540 ==
    (fn.name = "CorrectAspectRatio" /\ Width(fn.src) = 720 /\ Height(fn.src) = 486
     /\ fn.par = <<10, 9>>) =>
        (Width(fn.out) = 720 /\ Height(fn.out) = 540)

\* C17 as amended: a 720x486 rectangle is corrected to 800x486 with pixel
\* aspect ratio 10:9 and to 720x540 with pixel aspect ratio 9:10.
C17_NineToTenIs720x540 ==
    (fn.name = "CorrectAspectRatio" /\ Width(fn.src) = 720 /\ Height(fn.src) = 486) =>
        /\ fn.par = <<10, 9>> => (Width(fn.out) = 800 /\ Height(fn.out) = 486)
        /\ fn.par = <<9, 10>> => (Width(fn.out) = 720 /\ Height(fn.out) = 540)

\* The 720x486 rectangle corrected with 9:10 pixels.
C17_Witness ==
    /\ fn.name = "CorrectAspectRatio"
    /\ fn.src = Rect(0, 0, 720, 486)
    /\ fn.par = <<9, 10>>
    /\ fn.out = Rect(0, 0, 720, 540)

\* LetterBoxRect was called with a 4:3 source and a 16:9 destination.
FourByThreeInSixteenByNine ==
    /\ fn.name = "LetterBoxRect"
    /\ 3 * Width(fn.src) = 4 * Height(fn.src)
    /\ 9 * Width(fn.dst) = 16 * Height(fn.dst)

\* C18 as claimed: a 4:3 source in a 16:9 destination of width W gives a
\* rectangle of width W and height W*3/4 whose top and bottom margins
\* differ by at most 1.
C18_FullWidthLetterbox ==
    FourByThreeInSixteenByNine =>
        /\ Width(fn.out) = Width(fn.dst)
        /\ Height(fn.out) = Rounded(3 * Width(fn.dst), 4)
        /\ Abs((fn.out.top - fn.dst.top) - (fn.dst.bottom - fn.out.bottom)) <= 1

\* C18 as amended: a 4:3 source in a 16:9 destination of height H gives a
\* rectangle of height H and width H*4/3 (rounded), at the top and bottom
\* of the destination, whose left and right margins differ by at most 1.
C18_FullHeightPillarbox ==
    FourByThreeInSixteenByNine =>
        /\ Height(fn.out) = Height(fn.dst)
        /\ Width(fn.out) = Rounded(4 * Height(fn.dst), 3)
        /\ fn.out.top = fn.dst.top /\ fn.out.bottom = fn.dst.bottom
        /\ fn.out.left >= fn.dst.left /\ fn.out.right <= fn.dst.right
        /\ Abs((fn.out.left - fn.dst.left) - (fn.dst.right - fn.out.right)) <= 1

\* 640x480 in 1280x720: 960x720 with margins of 160.
C18_Witness ==
    /\ fn.name = "LetterBoxRect"
    /\ fn.src = Rect(0, 0, 640, 480)
    /\ fn.dst = Rect(0, 0, 1280, 720)
    /\ fn.out = Rect(160, 0, 1120, 720)

\* C19 as claimed: for a ratio n:d, n > d gives the input's height and
\* width round(width*n/d), n < d gives the input's width and height
\* round(height*d/n), and 1:1 gives the input rectangle itself.
C19_CorrectedInPlace ==
    fn.name = "CorrectAspectRatio" =>
        LET n == fn.par[1]
            d == fn.par[2]
        IN  /\ n > d => /\ Height(fn.out) = Height(fn.src)
                        /\ Width(fn.out) = Rounded(Width(fn.src) * n, d)
            /\ n < d => /\ Width(fn.out) = Width(fn.src)
                        /\ Height(fn.out) = Rounded(Height(fn.src) * d, n)
            /\ (n = 1 /\ d = 1) => fn.out = fn.src

\* C19 as amended: the result always has its left top corner at (0, 0);
\* n > d gives the input's height and width round(width*n/d), n < d gives
\* the input's width and height round(height*d/n), and n = d gives the
\* input's width and height.
C19_CorrectedAtOrigin ==
    fn.name = "CorrectAspectRatio" =>
        LET n == fn.par[1]
            d == fn.par[2]
        IN  /\ fn.out.left = 0 /\ fn.out.top = 0
            /\ n > d => /\ Height(fn.out) = Height(fn.src)
                        /\ Width(fn.out) = Rounded(Width(fn.src) * n, d)
            /\ n < d => /\ Width(fn.out) = Width(fn.src)
                        /\ Height(fn.out) = Rounded(Height(fn.src) * d, n)
            /\ n = d => /\ Width(fn.out) = Width(fn.src)
                        /\ Height(fn.out) = Height(fn.src)

\* A rectangle away from the origin corrected with 1:1 pixels.
C19_Witness ==
    /\ fn.name = "CorrectAspectRatio"
    /\ fn.par = <<1, 1>>
    /\ fn.src = Rect(3, 5, 643, 485)
    /\ fn.out = Rect(0, 0, 640, 480)

\* C20: for a source and a destination of positive width and height the
\* result lies inside the destination, has the destination's height when
\* round(srcW*dstH/srcH) <= dstW and the destination's width otherwise, has
\* the other dimension scaled with rounded division, and has opposite
\* margins that differ by at most 1.
C20_LetterboxFits ==
    (fn.name = "LetterBoxRect" /\ Width(fn.src) > 0 /\ Height(fn.src) > 0
     /\ Width(fn.dst) > 0 /\ Height(fn.dst) > 0) =>
        LET sw == Width(fn.src)
            sh == Height(fn.src)
            dw == Width(fn.dst)
            dh == Height(fn.dst)
        IN  /\ fn.dst.left <= fn.out.left /\ fn.out.left <= fn.out.right
            /\ fn.out.right <= fn.dst.right
            /\ fn.dst.top <= fn.out.top /\ fn.out.top <= fn.out.bottom
            /\ fn.out.bottom <= fn.dst.bottom
            /\ IF Rounded(sw * dh, sh) <= dw
               THEN Height(fn.out) = dh /\ Width(fn.out) = Rounded(dh * sw, sh)
               ELSE Width(fn.out) = dw /\ Height(fn.out) = Rounded(dw * sh, sw)
            /\ Abs((fn.out.left - fn.dst.left) - (fn.dst.right - fn.out.right)) <= 1
            /\ Abs((fn.out.top - fn.dst.top) - (fn.dst.bottom - fn.out.bottom)) <= 1

\* A source wider than the destination's shape, with a rounded height and
\* margins that differ by 1.
C20_Witness ==
    /\ fn.name = "LetterBoxRect"
    /\ Width(fn.out) = Width(fn.dst)
    /\ Height(fn.out) < Height(fn.dst)
    /\ (Width(fn.dst) * Height(fn.src)) % Width(fn.src) # 0
    /\ Abs((fn.out.top - fn.dst.top) - (fn.dst.bottom - fn.out.bottom)) = 1

\* The Release calls DestroyDevice makes for the handles d holds: swap
\* chain, device, Direct3D object, in that order.
ReleasesOf(d) ==
    (IF d.mSwapChain # NULL THEN <<"SwapChain.Release">> ELSE <<>>)
    \o (IF d.mDevice # NULL THEN <<"Device.Release">> ELSE <<>>)
    \o (IF d.mD3D # NULL THEN <<"D3D.Release">> ELSE <<>>)

\* C12: DestroyDevice releases the swap chain, then the device, then the
\* Direct3D object, each once and only if it is held; called with none of
\* them held it releases nothing and changes nothing; after it the three
\* handles are null and no other member has changed.
C12_DestroyReleasesInOrder ==
    [][last'.op = "DestroyDevice" =>
          /\ last'.log = ReleasesOf(dd)
          /\ dd'.mSwapChain = NULL /\ dd'.mDevice = NULL /\ dd'.mD3D = NULL
          /\ dd' = [dd EXCEPT !.mSwapChain = NULL, !.mDevice = NULL, !.mD3D = NULL]
          /\ ReleasesOf(dd) = <<>> => (dd' = dd /\ be' = be)
          /\ ReleasesOf(dd') = <<>>]_vars

\* A DestroyDevice of a device that held all three handles.
C12_Witness ==
    /\ last.op = "DestroyDevice"
    /\ last.log = <<"SwapChain.Release", "Device.Release", "D3D.Release">>
    /\ dd.mSwapChain = NULL /\ dd.mDevice = NULL /\ dd.mD3D = NULL

\* The calls by which a device is released and by which one is created.
ReleaseCalls == {"SwapChain.Release", "Device.Release", "D3D.Release"}

\* C22: one resetDevice calls Reset at most once, and only on a device
\* that exists; it releases the device and calls the creation sequence at
\* most once each, and only when Reset failed or there was no device; when
\* the creation fails it returns false with no device and without creating
\* a swap chain; every backend call is made at most once.
C22_ResetTriesOnce ==
    [][last'.op = "resetDevice" =>
          /\ \A x \in {"Reset", "CreateAdditionalSwapChain"} \cup ReleaseCalls \cup CreateCalls :
                Times(last', x) <= 1
          /\ Made(last', "Reset") <=> dd.mDevice # NULL
          /\ (\E x \in ReleaseCalls : Made(last', x)) =>
                (Made(last', "Reset") /\ ~last'.o.reset)
          /\ (\E x \in CreateCalls : Made(last', x)) =>
                (dd.mDevice = NULL \/ ~last'.o.reset)
          /\ (dd.mDevice = NULL \/ ~last'.o.reset) => Made(last', "GetAdapterDisplayMode")
                                                       \/ Made(last', "Direct3DCreate9")
          /\ dd'.mDevice = NULL =>
                (~last'.ret /\ dd'.mSwapChain = NULL /\ ~Made(last', "CreateAdditionalSwapChain"))
          /\ last'.ret => dd'.mDevice # NULL]_vars

\* A resetDevice whose Reset failed: the device was released, created
\* anew, and that creation failed.
C22_Witness ==
    /\ last.op = "resetDevice"
    /\ Made(last, "Reset")
    /\ Made(last, "Device.Release")
    /\ Made(last, "CreateDevice")
    /\ ~last.ret
    /\ dd.mDevice = NULL

\* C23: whenever the swap chain exists, its back buffer has the stored
\* frame width and height (the size DrawFrame gives the converter).
C23_ChainHasFrameSize ==
    dd.mSwapChain # NULL => (be.chainW = dd.mWidth /\ be.chainH = dd.mHeight)

\* In l's log a call x is made and a call y is made later.
Before(l, x, y) ==
    \E i \in DOMAIN l.log : \E j \in DOMAIN l.log : i < j /\ l.log[i] = x /\ l.log[j] = y

\* The calls that lock and unlock the source buffer of l, and the call
\* that converted it.
SrcLock(l)   == IF l.buf.is2D THEN "Lock2D" ELSE "Lock"
SrcUnlock(l) == IF l.buf.is2D THEN "Unlock2D" ELSE "Unlock"
Conversion(l) == IF Made(l, "convert") THEN "convert" ELSE "convert failed"

\* l is a DrawFrame that went past the conversion to the background fill.
Filled(l) == l.op = "DrawFrame" /\ Made(l, "ColorFill")

\* C24 as stated: the source buffer and the swap-chain surface are both
\* unlocked after the conversion and before the fill.
C24_BothUnlockedBeforeFill ==
    Filled(last) =>
        /\ Before(last, Conversion(last), "UnlockRect")
        /\ Before(last, "UnlockRect", "ColorFill")
        /\ Before(last, Conversion(last), SrcUnlock(last))
        /\ Before(last, SrcUnlock(last), "ColorFill")

\* C24 (amended): in a DrawFrame that reaches the fill, the swap-chain
\* surface is unlocked after the conversion and before the fill, the
\* stretch and the present; the source buffer is unlocked once, when
\* DrawFrame returns: after the conversion and after every fill, stretch
\* and present the call makes.
C24_SurfaceBeforeFillSourceAtReturn ==
    Filled(last) =>
        /\ Before(last, Conversion(last), "UnlockRect")
        /\ Before(last, "UnlockRect", "ColorFill")
        /\ Times(last, "UnlockRect") = 1
        /\ Before(last, SrcLock(last), Conversion(last))
        /\ Times(last, SrcUnlock(last)) = 1
        /\ Before(last, Conversion(last), SrcUnlock(last))
        /\ \A x \in {"UnlockRect", "ColorFill", "StretchRect", "Present"} :
              ~Before(last, SrcUnlock(last), x)
        /\ \A x \in {"ColorFill", "StretchRect", "Present"} :
              Made(last, x) => Before(last, "UnlockRect", x)

\* A DrawFrame that presented a frame and unlocked its source buffer.
C24_Witness ==
    /\ Filled(last)
    /\ Presented(last)
    /\ last.ret
    /\ Before(last, "Present", SrcUnlock(last))

\* C26: a DrawFrame whose LockRect of the swap-chain surface succeeded
\* calls UnlockRect on it before it returns, and when that UnlockRect
\* succeeds the surface is not locked after the return.
C26_SurfaceUnlockedOnReturn ==
    (last.op = "DrawFrame" /\ Made(last, "LockRect") /\ last.o.frame # "LockRect") =>
        /\ Before(last, "LockRect", "UnlockRect")
        /\ last.o.frame # "UnlockRect" => ~be.locked

\* C30: no operation of the draw device runs createSwapChains, which calls
\* mDevice->CreateAdditionalSwapChain, with mDevice null.
C30_ChainCreatedOnDevice ==
    [][last'.op \in {"createDevice", "setVideoType", "resetDevice", "DestroyDevice"} =>
          fault' # "null dereference"]_vars

\* C31: in every state a swap chain that exists belongs to a device that
\* exists, created from a Direct3D object that exists.
C31_ChainImpliesDevice ==
    dd.mSwapChain # NULL => (dd.mDevice # NULL /\ dd.mD3D # NULL)

\* A swap chain created anew by a resetDevice whose Reset failed and which
\* released and recreated the device.
C31_Witness ==
    /\ last.op = "resetDevice"
    /\ Made(last, "SwapChain.Release")
    /\ Made(last, "Device.Release")
    /\ Made(last, "CreateAdditionalSwapChain")
    /\ dd.mSwapChain # NULL
    /\ dd.mDevice # NULL

\* C11: the resetDevice step of Camera::resizeVideo makes no call on the
\* device or the swap chain (no Reset, no Release, no creation), leaves
\* every member of the draw device but mDestRect as it was, and leaves
\* mDestRect equal to the letterbox of the stored geometry in the
\* window's current client area.
C11_ResizeOnlyMovesDestRect ==
    [][(pc["app"] = "resizeVideo: resetDevice" /\ pc'["app"] = "idle") =>
          /\ last'.log = <<>>
          /\ dd' = [dd EXCEPT !.mDestRect = dd'.mDestRect]
          /\ dd'.mDestRect = LetterBoxRect(
                 CorrectAspectRatio(Rect(0, 0, dd'.mWidth, dd'.mHeight), dd'.mAspect),
                 Rect(0, 0, client'[dd'.mWindow][1], client'[dd'.mWindow][2]))]_vars

(***************************************************************************)
(* Properties of the VideoBufferLock (checked under SpecLock)              *)
(***************************************************************************)
\* C13: when the object is destroyed every successful lock of the frame
\* buffer has been matched by one unlock; a LockBuffer that fails makes no
\* unlock; unlock on an object that is not locked changes nothing.
C13_LocksAreReleased ==
    [][/\ vbl'.op = "~VideoBufferLock" => vbl'.unlocks = vbl'.locks
       /\ (vbl'.op = "LockBuffer" /\ vbl'.ptr = NoPtr) => vbl'.unlocks = vbl.unlocks
       /\ (vbl'.op = "unlock" /\ ~vbl.l.mLocked) => vbl' = [vbl EXCEPT !.op = "unlock"]]_vars

\* C14: LockBuffer of a linear buffer with a negative stride s and height h
\* returns the base plus |s|*(h-1), getStride returns s, and row y of h
\* rows walked from the pointer with that stride is the logical row y of
\* the bottom-up image, stored at |s|*(h-1-y).
C14_BottomUpStartsAtLastRow ==
    (vbl.op = "LockBuffer" /\ ~vbl.buf.is2D /\ vbl.ptr # NoPtr /\ vbl.stride < 0) =>
        /\ vbl.ptr = Abs(vbl.stride) * (vbl.height - 1)
        /\ getStride(vbl.l) = vbl.stride
        /\ \A y \in 0..(vbl.height - 1) :
              vbl.ptr + y * getStride(vbl.l) = Abs(vbl.stride) * (vbl.height - 1 - y)

\* C15: a 2-D buffer is locked with Lock2D and getStride is then the pitch
\* the buffer reported; a linear buffer is locked with Lock and getStride
\* is then the stride the caller gave; after a LockBuffer that fails the
\* object holds no lock of the buffer; every lock and unlock made on the
\* buffer is of the buffer's kind.
C15_StrategyFollowsBuffer ==
    /\ (vbl.op = "LockBuffer" /\ vbl.ptr # NoPtr) =>
          /\ vbl.l.mLocked
          /\ vbl.calls[Len(vbl.calls)] = (IF vbl.buf.is2D THEN "Lock2D" ELSE "Lock")
          /\ getStride(vbl.l) = (IF vbl.buf.is2D THEN vbl.buf.pitch ELSE vbl.stride)
    /\ (vbl.op = "LockBuffer" /\ vbl.ptr = NoPtr) =>
          (~vbl.l.mLocked /\ vbl.locks = vbl.unlocks)
    /\ \A i \in DOMAIN vbl.calls :
          vbl.calls[i] \in (IF vbl.buf.is2D THEN {"Lock2D", "Unlock2D", "failed"}
                                            ELSE {"Lock", "Unlock", "failed"})

(***************************************************************************)
(* Properties of the converters (checked under SpecConv)                   *)
(***************************************************************************)
\* The colour of one Y, Cb, Cr sample by the fixed studio-range formula.
StudioRangeRGB(Y, Cb, Cr) ==
    [rgbRed   |-> Clip((298 * (Y - 16) + 409 * (Cr - 128) + 128) \div 256),
     rgbGreen |-> Clip((298 * (Y - 16) - 100 * (Cb - 128) - 208 * (Cr - 128) + 128) \div 256),
     rgbBlue  |-> Clip((298 * (Y - 16) + 516 * (Cb - 128) + 128) \div 256)]

White == [rgbRed |-> 255, rgbGreen |-> 255, rgbBlue |-> 255]

\* Every pixel of the converted frame is the formula's colour of the
\* frame's one Y, Cb, Cr; for Y=235, Cb=128, Cr=128 it is white.
UniformOut ==
    /\ \A y \in 0..(conv.height - 1) : \A x \in 0..(conv.width - 1) :
          conv.out[y][x] = StudioRangeRGB(conv.yuv[1], conv.yuv[2], conv.yuv[3])
    /\ conv.yuv = <<235, 128, 128>> =>
          \A y \in 0..(conv.height - 1) : \A x \in 0..(conv.width - 1) :
             conv.out[y][x] = White

PelFrom(y, x, iY, iU, iV) ==
    LET at == y * conv.srcStride + 4 * (x \div 2)
    IN  ConvertYCrCbToRGB(conv.source[at + iY], conv.source[at + iV], conv.source[at + iU])

====
